---- MODULE Spec2Model ----
(***************************************************************************)
(* Gomoku game engine (src/src/services/game.service.js) and the socket    *)
(* room handler (src/src/socket/socketHandler.js with validateMove).       *)
(*                                                                         *)
(* A board is a function board[y][x] over 0..size-1, as the nested arrays  *)
(* of the source.  null is the string "null".  Timestamps (createdAt,      *)
(* updatedAt, ts) are left out: nothing in the engine reads them.          *)
(***************************************************************************)
EXTENDS Integers, Sequences, FiniteSets, TLC

VARIABLES
    games,   \* the Map of game.service.js: game id -> game object
    ghost,   \* history per game id: the firstPlayer it was created with, and
             \* whether an undo ever succeeded on it (the game object keeps neither)
    last,    \* the last service call: operation, game id, x, y, steps argument, status
             \* of the game when it was called, error code or "OK", undone count
    reqs,    \* HTTP move requests in flight: arrived, not yet handled / answered
    base,    \* history: the Map as it was when two requests became concurrent
    resp,    \* games.controller.js: the last request and the response res.status(..).json(..)
    sessions, \* csrf.middleware.js: session id -> session.csrfToken, empty while unset
    issued,  \* history: the tokens crypto.randomBytes returned so far
    clast,   \* what the last csrf.middleware.js call got and answered
    snap,    \* a DTO a caller of the service kept: what it held when it was
             \* returned, what its board and moves fields read now
    rooms,   \* socketHandler.js rooms: room id -> players (list of socket ids)
    boards,  \* socketHandler.js boards: room id -> 15 x 15 board[row][col]
    members, \* socket.io rooms: room id -> set of joined sockets
    rlast    \* what the last socket handler did: event, message, moveResult

httpVars == <<reqs, base, resp, sessions, issued, clast, snap>>

csrfVars == <<sessions, issued, clast>>

gameVars == <<games, ghost, last>>

roomVars == <<rooms, boards, members, rlast>>

vars == <<games, ghost, last, reqs, base, resp, sessions, issued, clast, snap,
         rooms, boards, members, rlast>>

Null == "null"

NoGame == [id |-> Null]

Players == {"B", "W"}

\* ---------------------------------------------------------------- bounds
\* ids that randomUUID returns in a run
GameIds == {"g1"}

\* an id no createGame returned
UnknownId == "g0"

\* largest steps value a caller passes to undo (0 is the malformed one)
MaxSteps == 3

\* the move requests that can be in flight at once
ReqIds == {"r1", "r2"}

NoReq == [st |-> "idle", id |-> Null, x |-> 0, y |-> 0, code |-> Null]

NoBase == [armed |-> FALSE, games |-> << >>]

\* the sessions express-session keeps
SessionIds == {"c1"}

\* req.session of a request that carries no session
NoSession == "none"

\* session.csrfToken while unset, and the null rotateCsrfToken returns: no characters
NoToken == << >>

\* bytes of a token: crypto.randomBytes(32) in the source, one byte here
TokenBytes == 1

\* no csrf.middleware.js function ran yet
NoCsrf == [op |-> "none", sid |-> NoSession, method |-> "GET", header |-> << >>,
           before |-> NoToken, status |-> 0, code |-> Null, next |-> FALSE,
           exposed |-> NoToken, returned |-> NoToken]

\* no caller keeps a DTO
NoSnap == [held |-> FALSE, id |-> Null, returned |-> NoGame,
           board |-> << >>, moves |-> << >>, live |-> FALSE]

\* no request was answered yet
NoResp == [handler |-> "none", id |-> Null, body |-> [k \in {} |-> 0],
           status |-> 0, error |-> Null]

\* socket ids of the connections of a run.  The connection handler only
\* registers the handlers below, and a disconnect leaves no trace of the id in
\* rooms or boards, so an id acting after its disconnect stands for a new
\* connection.
Sockets == {"s1", "s2", "s3"}

\* room ids the clients name; the empty string is the falsy roomId
RoomIds == {"room1"}

\* most entries the players list of a room grows to
MaxPlayers == 3

\* board size of a room
RoomSize == 15

\* the <<row, col>> the clients send: three cells of the board, two outside
RoomCells == {<<0, 0>>, <<0, 1>>, <<1, 0>>, <<-1, 0>>, <<0, RoomSize>>}

\* rlast: the event and the socket it came from; for a move the room, cell,
\* colour it was evaluated for, colour to move, whether the cell was a free
\* cell of the board, and the moveResult sent back; out is what the handler
\* emitted, in order.  pair is history: the handler before was an accepted
\* move of this room, for this colour, on another cell.
NoEmit == [op |-> "none", sender |-> Null, room |-> Null, row |-> 0, col |-> 0,
           color |-> Null, turn |-> Null, free |-> FALSE,
           valid |-> FALSE, reason |-> Null, pair |-> FALSE, out |-> << >>]

\* one emit: the event name, the sockets it goes to, and its payload
\* (roomData: players; moveResult: valid, reason; move: row, col, by)
emission(ev, to, players, row, col, by, valid, reason) ==
    [ev |-> ev, to |-> to, players |-> players, row |-> row, col |-> col,
     by |-> by, valid |-> valid, reason |-> reason]

\* socket.emit("moveResult", result)
emitMoveResult(sock, result) ==
    emission("moveResult", {sock}, << >>, 0, 0, Null, result.valid, result.reason)

\* io.to(roomId).emit("roomData", players)
emitRoomData(to, players) ==
    emission("roomData", to, players, 0, 0, Null, FALSE, Null)

\* What the callers of a run send.  A game is created with one of four board
\* sizes; on the smallest every cell is played in every order, on the
\* larger ones the callers play a fixed opening and then choose among free.
\*   size 2  : winLength 2 or 3, all orders of play
\*   size 3  : winLength 3 (tic-tac-toe); after the opening the cells
\*             (0,0), (0,2), (2,2) are left, in any order
\*   size 5  : winLength 3; Black (0,0), (0,1) and White (1,0), (1,1) after
\*             the opening, then (0,2), (1,2), (4,4) in any order
\*   size 15 : winLength 5; the first player has x = 0,1,2,4 of row 0 after
\*             the opening, then (3,0), (5,0), (10,10) in any order
Scenarios ==
    { [size |-> 2, winLengths |-> {2, 3}, opening |-> << >>,
       free |-> {<<x, y>> : x \in 0..1, y \in 0..1}],
      [size |-> 3, winLengths |-> {3},
       opening |-> << <<1, 1>>, <<2, 0>>, <<1, 0>>, <<1, 2>>, <<0, 1>>, <<2, 1>> >>,
       free |-> {<<0, 0>>, <<0, 2>>, <<2, 2>>}],
      [size |-> 5, winLengths |-> {3},
       opening |-> << <<0, 0>>, <<1, 0>>, <<0, 1>>, <<1, 1>> >>,
       free |-> {<<0, 2>>, <<1, 2>>, <<4, 4>>}],
      [size |-> 15, winLengths |-> {5},
       opening |-> << <<0, 0>>, <<0, 2>>, <<1, 0>>, <<2, 2>>,
                      <<2, 0>>, <<4, 2>>, <<4, 0>>, <<6, 2>> >>,
       free |-> {<<3, 0>>, <<5, 0>>, <<10, 10>>}] }

ScenarioOf(size) == CHOOSE s \in Scenarios : s.size = size

\* the (size, winLength, allowOverlines, firstPlayer) a caller passes to createGame
Configs ==
    UNION { [size : {s.size}, winLength : s.winLengths,
             allowOverlines : BOOLEAN, firstPlayer : Players] : s \in Scenarios }

\* out-of-bounds cells a caller sends to a board of this size
OutCells(size) == {<<-1, 0>>, <<0, -1>>, <<size, 0>>, <<0, size>>, <<-1, size>>}

\* the cells <<x, y>> a caller sends to a game with this many moves on its log
CellsFor(size, n) ==
    LET s == ScenarioOf(size)
    IN  OutCells(size) \cup
        (IF n < Len(s.opening)
         THEN {s.opening[n + 1]} \cup {s.opening[i] : i \in 1..n}
         ELSE s.free \cup {s.opening[i] : i \in 1..Len(s.opening)})

\* ------------------------------------------------------- engine helpers
\* const createEmptyBoard = (size) => Array.from({length: size}, () => Array(size).fill(null))
createEmptyBoard(size) == [y \in 0..(size - 1) |-> [x \in 0..(size - 1) |-> Null]]

\* board.length
BoardLen(board) == Cardinality(DOMAIN board)

\* isBoardFull with some in place of the outer every: one full row is enough
isBoardFullSomeRow(board) ==
    \E y \in DOMAIN board : \A x \in DOMAIN board[y] : board[y][x] # Null

\* const isBoardFull = (board) => board.every((r) => r.every((c) => c !== null))
isBoardFull(board) == \A y \in DOMAIN board : \A x \in DOMAIN board[y] : board[y][x] # Null

\* placeStone that tests board[y][x] and writes board[x][y]
placeStoneTransposed(board, x, y, player) ==
    IF board[y][x] # Null
    THEN [thrown |-> TRUE, board |-> board]
    ELSE [thrown |-> FALSE, board |-> [board EXCEPT ![x][y] = player]]

\* placeStone: clone, throw OCCUPIED on a taken cell, else set the cell of the
\* clone.  thrown = TRUE stands for the throw (no board is returned then).
placeStone(board, x, y, player) ==
    IF board[y][x] # Null
    THEN [thrown |-> TRUE, board |-> board]
    ELSE [thrown |-> FALSE, board |-> [board EXCEPT ![y][x] = player]]

RECURSIVE countDir(_, _, _, _, _, _)
countDir(board, x, y, dx, dy, player) ==
    LET cx == x + dx
        cy == y + dy
    IN  IF /\ cy >= 0
           /\ cy < BoardLen(board)
           /\ cx >= 0
           /\ cx < BoardLen(board)
           /\ board[cy][cx] = player
        THEN 1 + countDir(board, cx, cy, dx, dy, player)
        ELSE 0

\* horizontal, vertical, diag down-right, diag up-right
dirs == << <<1, 0>>, <<0, 1>>, <<1, 1>>, <<1, -1>> >>

\* axisTotal without the count in the negative direction
axisTotalForward(board, x, y, d, player) ==
    1 + countDir(board, x, y, d[1], d[2], player)

\* total of one axis: 1 + forward + backward
axisTotal(board, x, y, d, player) ==
    1 + countDir(board, x, y, d[1], d[2], player)
      + countDir(board, x, y, -d[1], -d[2], player)

\* winCondition that takes every run of at least winLength, overlines or not
winConditionAtLeast(total, winLength, allowOverlines) == total >= winLength

\* allowOverlines ? total >= winLength : total === winLength
winCondition(total, winLength, allowOverlines) ==
    IF allowOverlines THEN total >= winLength ELSE total = winLength

\* the loop of checkWin from axis i on: first qualifying axis returns
RECURSIVE checkWinFrom(_, _, _, _, _, _, _)
checkWinFrom(i, board, x, y, player, winLength, allowOverlines) ==
    IF i > Len(dirs)
    THEN [winner |-> Null, line |-> Null]
    ELSE LET total == axisTotal(board, x, y, dirs[i], player)
         IN  IF winCondition(total, winLength, allowOverlines)
             THEN [winner |-> player, line |-> Null]
             ELSE checkWinFrom(i + 1, board, x, y, player, winLength, allowOverlines)

\* checkWin that looks at the horizontal axis only
checkWinFirstAxis(board, x, y, player, winLength, allowOverlines) ==
    IF winCondition(axisTotal(board, x, y, dirs[1], player), winLength, allowOverlines)
    THEN [winner |-> player, line |-> Null]
    ELSE [winner |-> Null, line |-> Null]

checkWin(board, x, y, player, winLength, allowOverlines) ==
    checkWinFrom(1, board, x, y, player, winLength, allowOverlines)

\* next that hands the turn back to the same player
nextSame(p) == p

\* const next = (p) => (p === "B" ? "W" : "B")
next(p) == IF p = "B" THEN "W" ELSE "B"

\* requireGame that hands out a default game for an id it does not know
requireGameDefault(gs, gameId) ==
    IF gameId \in DOMAIN gs
    THEN gs[gameId]
    ELSE [id |-> gameId, size |-> 15, board |-> createEmptyBoard(15),
          nextPlayer |-> "B", status |-> "ongoing", winner |-> Null,
          winningLine |-> Null, moves |-> << >>,
          config |-> [winLength |-> 5, allowOverlines |-> TRUE]]

\* games.get(gameId); NoGame stands for the NOT_FOUND throw
requireGame(gs, gameId) ==
    IF gameId \in DOMAIN gs THEN gs[gameId] ELSE NoGame

\* toDTO(game), timestamps left out
toDTO(game) ==
    [gameId |-> game.id,
     size |-> game.size,
     board |-> game.board,
     nextPlayer |-> game.nextPlayer,
     status |-> game.status,
     winner |-> game.winner,
     winningLine |-> game.winningLine,
     moves |-> game.moves,
     config |-> game.config]

\* getGameDTO(gameId): NOT_FOUND, or "OK" and the DTO
getGameDTO(gs, gameId) ==
    LET game == requireGame(gs, gameId)
    IN  IF game = NoGame
        THEN [code |-> "NOT_FOUND", dto |-> NoGame]
        ELSE [code |-> "OK", dto |-> toDTO(game)]

\* the game object createGame stores
newGame(id, size, firstPlayer, winLength, allowOverlines) ==
    [id |-> id,
     size |-> size,
     board |-> createEmptyBoard(size),
     nextPlayer |-> firstPlayer,
     status |-> "ongoing",
     winner |-> Null,
     winningLine |-> Null,
     moves |-> << >>,
     config |-> [winLength |-> winLength, allowOverlines |-> allowOverlines]]

\* settle whose draw branch leaves nextPlayer as it was
settleDrawKeepsTurn(game, result, board, player) ==
    IF result.winner # Null
    THEN [game EXCEPT !.status = "won", !.winner = result.winner,
                      !.winningLine = result.line, !.nextPlayer = Null]
    ELSE IF isBoardFull(board)
    THEN [game EXCEPT !.status = "draw", !.winner = Null,
                      !.winningLine = Null]
    ELSE [game EXCEPT !.status = "ongoing", !.winner = Null,
                      !.winningLine = Null, !.nextPlayer = next(player)]

\* settle without the draw branch
settleNoDraw(game, result, board, player) ==
    IF result.winner # Null
    THEN [game EXCEPT !.status = "won", !.winner = result.winner,
                      !.winningLine = result.line, !.nextPlayer = Null]
    ELSE [game EXCEPT !.status = "ongoing", !.winner = Null,
                      !.winningLine = Null, !.nextPlayer = next(player)]

\* the if / else-if / else that ends applyMove: won, draw or ongoing
settle(game, result, board, player) ==
    IF result.winner # Null
    THEN [game EXCEPT !.status = "won", !.winner = result.winner,
                      !.winningLine = result.line, !.nextPlayer = Null]
    ELSE IF isBoardFull(board)
    THEN [game EXCEPT !.status = "draw", !.winner = Null,
                      !.winningLine = Null, !.nextPlayer = Null]
    ELSE [game EXCEPT !.status = "ongoing", !.winner = Null,
                      !.winningLine = Null, !.nextPlayer = next(player)]

\* afterMove whose index is the length of the log after the push
afterMoveIndexAfterPush(game, x, y) ==
    LET player == game.nextPlayer
        board == placeStone(game.board, x, y, player).board
        result == checkWin(board, x, y, player,
                           game.config.winLength, game.config.allowOverlines)
        moves == Append(game.moves,
                        [x |-> x, y |-> y, player |-> player, index |-> Len(game.moves) + 1])
    IN  settle([game EXCEPT !.board = board, !.moves = moves], result, board, player)

\* the part of applyMove after the three validations: place, check, record
afterMove(game, x, y) ==
    LET player == game.nextPlayer
        board == placeStone(game.board, x, y, player).board
        result == checkWin(board, x, y, player,
                           game.config.winLength, game.config.allowOverlines)
        moves == Append(game.moves,
                        [x |-> x, y |-> y, player |-> player, index |-> Len(game.moves)])
    IN  settle([game EXCEPT !.board = board, !.moves = moves], result, board, player)

\* applyMove without the status validation
applyMoveNoStateCheck(gs, gameId, x, y) ==
    LET game == requireGame(gs, gameId)
    IN  IF game = NoGame
        THEN [code |-> "NOT_FOUND", games |-> gs]
        ELSE IF x < 0 \/ y < 0 \/ x >= game.size \/ y >= game.size
        THEN [code |-> "OUT_OF_BOUNDS", games |-> gs]
        ELSE IF game.board[y][x] # Null
        THEN [code |-> "OCCUPIED", games |-> gs]
        ELSE [code |-> "OK", games |-> [gs EXCEPT ![gameId] = afterMove(game, x, y)]]

\* applyMove that validates and places on the Map as it was when the two
\* concurrent requests arrived, and stores the result over the current entry
applyMoveStale(gs, gameId, x, y) ==
    LET game == requireGame(IF base.armed THEN base.games ELSE gs, gameId)
    IN  IF game = NoGame
        THEN [code |-> "NOT_FOUND", games |-> gs]
        ELSE IF game.status # "ongoing"
        THEN [code |-> "INVALID_STATE", games |-> gs]
        ELSE IF x < 0 \/ y < 0 \/ x >= game.size \/ y >= game.size
        THEN [code |-> "OUT_OF_BOUNDS", games |-> gs]
        ELSE IF game.board[y][x] # Null
        THEN [code |-> "OCCUPIED", games |-> gs]
        ELSE [code |-> "OK", games |-> [gs EXCEPT ![gameId] = afterMove(game, x, y)]]

\* applyMove that hands the new board to every stored game of the same size,
\* as one board object shared between the games would
applyMoveSharedBoard(gs, gameId, x, y) ==
    LET game == requireGame(gs, gameId)
    IN  IF game = NoGame
        THEN [code |-> "NOT_FOUND", games |-> gs]
        ELSE IF game.status # "ongoing"
        THEN [code |-> "INVALID_STATE", games |-> gs]
        ELSE IF x < 0 \/ y < 0 \/ x >= game.size \/ y >= game.size
        THEN [code |-> "OUT_OF_BOUNDS", games |-> gs]
        ELSE IF game.board[y][x] # Null
        THEN [code |-> "OCCUPIED", games |-> gs]
        ELSE [code |-> "OK",
              games |-> [g \in DOMAIN gs |->
                            IF g = gameId
                            THEN afterMove(game, x, y)
                            ELSE IF gs[g].size = game.size
                            THEN [gs[g] EXCEPT !.board = afterMove(game, x, y).board]
                            ELSE gs[g]]]

\* applyMove that checks the bounds before the status
applyMoveBoundsFirst(gs, gameId, x, y) ==
    LET game == requireGame(gs, gameId)
    IN  IF game = NoGame
        THEN [code |-> "NOT_FOUND", games |-> gs]
        ELSE IF x < 0 \/ y < 0 \/ x >= game.size \/ y >= game.size
        THEN [code |-> "OUT_OF_BOUNDS", games |-> gs]
        ELSE IF game.status # "ongoing"
        THEN [code |-> "INVALID_STATE", games |-> gs]
        ELSE IF game.board[y][x] # Null
        THEN [code |-> "OCCUPIED", games |-> gs]
        ELSE [code |-> "OK", games |-> [gs EXCEPT ![gameId] = afterMove(game, x, y)]]

\* applyMove that clamps the coordinates into the board instead of
\* refusing the ones outside
applyMoveClamp(gs, gameId, x, y) ==
    LET game == requireGame(gs, gameId)
    IN  IF game = NoGame
        THEN [code |-> "NOT_FOUND", games |-> gs]
        ELSE IF game.status # "ongoing"
        THEN [code |-> "INVALID_STATE", games |-> gs]
        ELSE LET cx == IF x < 0 THEN 0 ELSE IF x >= game.size THEN game.size - 1 ELSE x
                 cy == IF y < 0 THEN 0 ELSE IF y >= game.size THEN game.size - 1 ELSE y
             IN  IF game.board[cy][cx] # Null
                 THEN [code |-> "OCCUPIED", games |-> gs]
                 ELSE [code |-> "OK",
                       games |-> [gs EXCEPT ![gameId] = afterMove(game, cx, cy)]]

\* applyMove that pushes the move on the log before the occupancy check
applyMoveLogFirst(gs, gameId, x, y) ==
    LET game == requireGame(gs, gameId)
    IN  IF game = NoGame
        THEN [code |-> "NOT_FOUND", games |-> gs]
        ELSE IF game.status # "ongoing"
        THEN [code |-> "INVALID_STATE", games |-> gs]
        ELSE IF x < 0 \/ y < 0 \/ x >= game.size \/ y >= game.size
        THEN [code |-> "OUT_OF_BOUNDS", games |-> gs]
        ELSE IF game.board[y][x] # Null
        THEN [code |-> "OCCUPIED",
              games |-> [gs EXCEPT ![gameId].moves =
                            Append(@, [x |-> x, y |-> y, player |-> game.nextPlayer,
                                       index |-> Len(game.moves)])]]
        ELSE [code |-> "OK", games |-> [gs EXCEPT ![gameId] = afterMove(game, x, y)]]

\* applyMove({gameId, x, y}): the error code, or "OK" and the stored game
applyMove(gs, gameId, x, y) ==
    LET game == requireGame(gs, gameId)
    IN  IF game = NoGame
        THEN [code |-> "NOT_FOUND", games |-> gs]
        ELSE IF game.status # "ongoing"
        THEN [code |-> "INVALID_STATE", games |-> gs]
        ELSE IF x < 0 \/ y < 0 \/ x >= game.size \/ y >= game.size
        THEN [code |-> "OUT_OF_BOUNDS", games |-> gs]
        ELSE IF game.board[y][x] # Null
        THEN [code |-> "OCCUPIED", games |-> gs]
        ELSE [code |-> "OK", games |-> [gs EXCEPT ![gameId] = afterMove(game, x, y)]]

Min(a, b) == IF a < b THEN a ELSE b

\* replayBoard whose loop stops one entry early: the last kept move is not placed
RECURSIVE replayBoardDropLast(_, _, _)
replayBoardDropLast(board, replay, i) ==
    IF i >= Len(replay)
    THEN [thrown |-> FALSE, board |-> board]
    ELSE LET r == placeStone(board, replay[i].x, replay[i].y, replay[i].player)
         IN  IF r.thrown THEN r ELSE replayBoardDropLast(r.board, replay, i + 1)

\* the replay loop of undo from entry i on: place each kept move in turn;
\* a throw of placeStone leaves the loop
RECURSIVE replayBoard(_, _, _)
replayBoard(board, replay, i) ==
    IF i > Len(replay)
    THEN [thrown |-> FALSE, board |-> board]
    ELSE LET r == placeStone(board, replay[i].x, replay[i].y, replay[i].player)
         IN  IF r.thrown THEN r ELSE replayBoard(r.board, replay, i + 1)

\* afterUndo that rebuilds the board but keeps the whole log
afterUndoKeepLog(game, steps) ==
    LET toUndo == Min(steps, Len(game.moves))
        replay == SubSeq(game.moves, 1, Len(game.moves) - toUndo)
        board == replayBoard(createEmptyBoard(game.size), replay, 1).board
    IN  [game EXCEPT !.board = board,
                     !.status = "ongoing",
                     !.winner = Null,
                     !.winningLine = Null,
                     !.nextPlayer = IF Len(replay) = 0
                                    THEN "B"
                                    ELSE next(replay[Len(replay)].player)]

\* afterUndo that does not clear winner
afterUndoKeepWinner(game, steps) ==
    LET toUndo == Min(steps, Len(game.moves))
        replay == SubSeq(game.moves, 1, Len(game.moves) - toUndo)
        board == replayBoard(createEmptyBoard(game.size), replay, 1).board
    IN  [game EXCEPT !.board = board,
                     !.moves = replay,
                     !.status = "ongoing",
                     !.winningLine = Null,
                     !.nextPlayer = IF Len(replay) = 0
                                    THEN "B"
                                    ELSE next(replay[Len(replay)].player)]

\* afterUndo that leaves status as it was
afterUndoKeepStatus(game, steps) ==
    LET toUndo == Min(steps, Len(game.moves))
        replay == SubSeq(game.moves, 1, Len(game.moves) - toUndo)
        board == replayBoard(createEmptyBoard(game.size), replay, 1).board
    IN  [game EXCEPT !.board = board,
                     !.moves = replay,
                     !.winner = Null,
                     !.winningLine = Null,
                     !.nextPlayer = IF Len(replay) = 0
                                    THEN "B"
                                    ELSE next(replay[Len(replay)].player)]

\* afterUndo that leaves nextPlayer as it was
afterUndoKeepTurn(game, steps) ==
    LET toUndo == Min(steps, Len(game.moves))
        replay == SubSeq(game.moves, 1, Len(game.moves) - toUndo)
        board == replayBoard(createEmptyBoard(game.size), replay, 1).board
    IN  [game EXCEPT !.board = board,
                     !.moves = replay,
                     !.status = "ongoing",
                     !.winner = Null,
                     !.winningLine = Null]

\* the state undo stores once its two validations passed
afterUndo(game, steps) ==
    LET toUndo == Min(steps, Len(game.moves))
        replay == SubSeq(game.moves, 1, Len(game.moves) - toUndo)
        board == replayBoard(createEmptyBoard(game.size), replay, 1).board
    IN  [game EXCEPT !.board = board,
                     !.moves = replay,
                     !.status = "ongoing",
                     !.winner = Null,
                     !.winningLine = Null,
                     !.nextPlayer = IF Len(replay) = 0
                                    THEN "B"
                                    ELSE next(replay[Len(replay)].player)]

\* the replay of undo throws (an Error without code) before anything is stored
undoThrows(game, steps) ==
    LET toUndo == Min(steps, Len(game.moves))
        replay == SubSeq(game.moves, 1, Len(game.moves) - toUndo)
    IN  replayBoard(createEmptyBoard(game.size), replay, 1).thrown

\* undo that looks at the log before it looks at steps
undoEmptyFirst(gs, gameId, steps) ==
    LET game == requireGame(gs, gameId)
    IN  IF game = NoGame
        THEN [code |-> "NOT_FOUND", games |-> gs, undone |-> 0]
        ELSE IF Len(game.moves) = 0
        THEN [code |-> "NOTHING_TO_UNDO", games |-> gs, undone |-> 0]
        ELSE IF steps < 1
        THEN [code |-> "BAD_REQUEST", games |-> gs, undone |-> 0]
        ELSE IF undoThrows(game, steps)
        THEN [code |-> "THROWN", games |-> gs, undone |-> 0]
        ELSE [code |-> "OK",
              games |-> [gs EXCEPT ![gameId] = afterUndo(game, steps)],
              undone |-> Min(steps, Len(game.moves))]

\* undo({gameId, steps}): the error code, or "OK", the stored game and undone
undo(gs, gameId, steps) ==
    LET game == requireGame(gs, gameId)
    IN  IF game = NoGame
        THEN [code |-> "NOT_FOUND", games |-> gs, undone |-> 0]
        ELSE IF steps < 1
        THEN [code |-> "BAD_REQUEST", games |-> gs, undone |-> 0]
        ELSE IF Len(game.moves) = 0
        THEN [code |-> "NOTHING_TO_UNDO", games |-> gs, undone |-> 0]
        ELSE IF undoThrows(game, steps)
        THEN [code |-> "THROWN", games |-> gs, undone |-> 0]
        ELSE [code |-> "OK",
              games |-> [gs EXCEPT ![gameId] = afterUndo(game, steps)],
              undone |-> Min(steps, Len(game.moves))]

\* ------------------------------------------- games.controller.js (CommonJS)
\* A request body is a function from the field names it carries to integers;
\* a field the body lacks destructures to undefined, which is no integer.
isInt(body, k) == k \in DOMAIN body

\* the names module.exports of the service carries
serviceExports == {"getGameDTO", "createGame", "applyMove", "undo"}

\* the code of the TypeError a call of a missing export throws: err.code is undefined
NoCode == "undefined"

\* res.status(status).json({error, message})
json(status, error) == [status |-> status, error |-> error]

\* the catch block of makeMove: switch (err.code)
makeMoveCatch(code) ==
    IF code = "NOT_FOUND"
    THEN json(404, code)
    ELSE IF code \in {"OUT_OF_BOUNDS", "OCCUPIED", "InVALID_STATE"}
    THEN json(400, code)
    ELSE IF code = "BAD_REQUEST"
    THEN json(400, code)
    ELSE json(500, "INTERNAL_SERVER_ERROR")

\* the catch block of undoMove: switch (err.code)
undoMoveCatch(code) ==
    IF code = "NOT_FOUND"
    THEN json(404, code)
    ELSE IF code = "NOTHING_TO_UNDO"
    THEN json(400, code)
    ELSE IF code = "BAD_REQUEST"
    THEN json(400, code)
    ELSE json(500, "INTERNAL_SERVER_ERROR")

\* makeMove(req, res): called tells whether gameService.applyMove ran
makeMove(gs, id, body) ==
    IF id = ""
    THEN [res |-> json(400, "MISSING_GAME_ID"), called |-> FALSE, code |-> NoCode, games |-> gs]
    ELSE IF ~isInt(body, "x") \/ ~isInt(body, "y")
    THEN [res |-> json(400, "INVALID_COORDINATES"), called |-> FALSE, code |-> NoCode,
          games |-> gs]
    ELSE LET r == applyMove(gs, id, body.x, body.y)
         IN  [res |-> IF r.code = "OK" THEN json(200, Null) ELSE makeMoveCatch(r.code),
              called |-> TRUE, code |-> r.code, games |-> r.games]

\* const {steps=1} = req.body || {}
stepsOf(body) == IF "steps" \in DOMAIN body THEN body.steps ELSE 1

\* undoMove(req, res): gameService.undoMove is called, and the service exports
\* no undoMove, so the call throws a TypeError inside the try block
undoMove(gs, id, body) ==
    IF id = ""
    THEN [res |-> json(400, "MISSING_GAME_ID"), called |-> FALSE, code |-> NoCode, games |-> gs]
    ELSE IF stepsOf(body) < 1
    THEN [res |-> json(400, "INVALID_STEPS"), called |-> FALSE, code |-> NoCode, games |-> gs]
    ELSE IF "undoMove" \in serviceExports
    THEN LET r == undo(gs, id, stepsOf(body))
         IN  [res |-> IF r.code = "OK" THEN json(200, Null) ELSE undoMoveCatch(r.code),
              called |-> TRUE, code |-> r.code, games |-> r.games]
    ELSE [res |-> undoMoveCatch(NoCode), called |-> FALSE, code |-> NoCode, games |-> gs]

\* ------------------------------------------------------------- actions
Init ==
    /\ games = << >>
    /\ ghost = << >>
    /\ last = [op |-> "none", id |-> Null, x |-> 0, y |-> 0, steps |-> 0, from |-> Null,
               code |-> "OK", undone |-> 0]
    /\ reqs = [r \in ReqIds |-> NoReq]
    /\ base = NoBase
    /\ resp = NoResp
    /\ sessions = [s \in SessionIds |-> NoToken]
    /\ issued = {}
    /\ clast = NoCsrf
    /\ snap = NoSnap
    /\ rooms = << >>
    /\ boards = << >>
    /\ members = [r \in RoomIds |-> {}]
    /\ rlast = NoEmit

\* createGame({size, firstPlayer, winLength, allowOverlines}) with a fresh id
CreateGame(id, c) ==
    /\ id \notin DOMAIN games
    /\ games' = games @@ (id :> newGame(id, c.size, c.firstPlayer, c.winLength, c.allowOverlines))
    /\ ghost' = ghost @@ (id :> [firstPlayer |-> c.firstPlayer, undone |-> FALSE])
    /\ last' = [op |-> "createGame", id |-> id, x |-> 0, y |-> 0, steps |-> 0, from |-> Null,
                code |-> "OK", undone |-> 0]
    /\ UNCHANGED <<httpVars, roomVars>>

\* applyMove({gameId, x, y}), failing or not
ApplyMove(id, x, y) ==
    LET r == applyMove(games, id, x, y)
    IN  /\ games' = r.games
        /\ last' = [op |-> "applyMove", id |-> id, x |-> x, y |-> y, steps |-> 0,
                    from |-> IF id \in DOMAIN games THEN games[id].status ELSE Null,
                    code |-> r.code, undone |-> 0]
        /\ UNCHANGED <<ghost, httpVars, roomVars>>

\* undo({gameId, steps}), failing or not
Undo(id, steps) ==
    LET r == undo(games, id, steps)
    IN  /\ games' = r.games
        /\ last' = [op |-> "undo", id |-> id, x |-> 0, y |-> 0, steps |-> steps,
                    from |-> IF id \in DOMAIN games THEN games[id].status ELSE Null,
                    code |-> r.code, undone |-> r.undone]
        /\ ghost' = IF r.code = "OK"
                    THEN [ghost EXCEPT ![id].undone = TRUE]
                    ELSE ghost
        /\ UNCHANGED <<httpVars, roomVars>>

\* getGameDTO(gameId), failing or not
GetGame(id) ==
    /\ last' = [op |-> "getGameDTO", id |-> id, x |-> 0, y |-> 0, steps |-> 0,
                from |-> IF id \in DOMAIN games THEN games[id].status ELSE Null,
                code |-> getGameDTO(games, id).code, undone |-> 0]
    /\ UNCHANGED <<games, ghost, httpVars, roomVars>>

\* a caller creates a game
DoCreate == \E id \in GameIds, c \in Configs : CreateGame(id, c)

\* a caller moves on a game it got from createGame
DoMove ==
    \E id \in DOMAIN games :
        \E c \in CellsFor(games[id].size, Len(games[id].moves)) : ApplyMove(id, c[1], c[2])

\* a caller moves on an id it made up
DoMoveUnknown == \E c \in OutCells(2) \cup {<<0, 0>>} : ApplyMove(UnknownId, c[1], c[2])

\* a caller undoes, on a known or a made-up id
DoUndo == \E id \in GameIds \cup {UnknownId}, steps \in 0..MaxSteps : Undo(id, steps)

\* a caller fetches a game, by a known or a made-up id
DoGet == \E id \in GameIds \cup {UnknownId} : GetGame(id)

Next == DoCreate \/ DoMove \/ DoMoveUnknown \/ DoUndo \/ DoGet

Spec == Init /\ [][Next]_vars

\* ------------------------------------------------- two games side by side
\* ids of two createGame calls
TwoIds == {"g1", "g2"}

\* both games on the 2 x 2 board, two in a row wins
TwoConfigs == {c \in Configs : c.size = 2 /\ c.winLength = 2 /\ c.allowOverlines}

\* the cells the callers of the two games send
TwoCells == {<<0, 0>>, <<1, 0>>, <<0, 1>>}

DoCreateTwo == \E id \in TwoIds, c \in TwoConfigs : CreateGame(id, c)

DoMoveTwo == \E id \in DOMAIN games, c \in TwoCells : ApplyMove(id, c[1], c[2])

DoUndoTwo == \E id \in DOMAIN games, steps \in 1..MaxSteps : Undo(id, steps)

NextTwo == DoCreateTwo \/ DoMoveTwo \/ DoUndoTwo

SpecTwo == Init /\ [][NextTwo]_vars

\* ----------------------------------------------- DTOs a caller keeps
\* toDTO copies the fields of the game into a new object: its board and moves
\* fields refer to the arrays the game refers to at that moment.  live tells
\* whether the moves field of the kept DTO still is the array game.moves.

\* the caller keeps the DTO just returned for the game
hold(game) ==
    [held |-> TRUE, id |-> game.id, returned |-> toDTO(game),
     board |-> game.board, moves |-> game.moves, live |-> TRUE]

\* a successful applyMove as the kept DTO sees it: game.board = board binds
\* the field to a new array, game.moves.push(..) writes into the array in place
heldAfterMove(s, game) ==
    IF s.held /\ s.id = game.id /\ s.live
    THEN [s EXCEPT !.moves = game.moves]
    ELSE s

\* a successful undo as the kept DTO sees it: game.board = board and
\* game.moves = replay bind both fields to new arrays
heldAfterUndo(s, game) ==
    IF s.held /\ s.id = game.id
    THEN [s EXCEPT !.live = FALSE]
    ELSE s

\* createGame, and the caller keeps the DTO or drops it
CreateGameKeep(id, c, keep) ==
    /\ id \notin DOMAIN games
    /\ games' = games @@ (id :> newGame(id, c.size, c.firstPlayer, c.winLength, c.allowOverlines))
    /\ ghost' = ghost @@ (id :> [firstPlayer |-> c.firstPlayer, undone |-> FALSE])
    /\ last' = [op |-> "createGame", id |-> id, x |-> 0, y |-> 0, steps |-> 0, from |-> Null,
                code |-> "OK", undone |-> 0]
    /\ snap' = IF keep THEN hold(games'[id]) ELSE snap
    /\ UNCHANGED <<reqs, base, resp, csrfVars, roomVars>>

\* applyMove, and the caller keeps the DTO of a success or drops it
ApplyMoveKeep(id, x, y, keep) ==
    LET r == applyMove(games, id, x, y)
    IN  /\ games' = r.games
        /\ last' = [op |-> "applyMove", id |-> id, x |-> x, y |-> y, steps |-> 0,
                    from |-> IF id \in DOMAIN games THEN games[id].status ELSE Null,
                    code |-> r.code, undone |-> 0]
        /\ snap' = IF r.code # "OK" THEN snap
                   ELSE IF keep THEN hold(r.games[id])
                   ELSE heldAfterMove(snap, r.games[id])
        /\ UNCHANGED <<ghost, reqs, base, resp, csrfVars, roomVars>>

\* undo, and the caller keeps the DTO of a success or drops it
UndoKeep(id, steps, keep) ==
    LET r == undo(games, id, steps)
    IN  /\ games' = r.games
        /\ last' = [op |-> "undo", id |-> id, x |-> 0, y |-> 0, steps |-> steps,
                    from |-> IF id \in DOMAIN games THEN games[id].status ELSE Null,
                    code |-> r.code, undone |-> r.undone]
        /\ ghost' = IF r.code = "OK"
                    THEN [ghost EXCEPT ![id].undone = TRUE]
                    ELSE ghost
        /\ snap' = IF r.code # "OK" THEN snap
                   ELSE IF keep THEN hold(r.games[id])
                   ELSE heldAfterUndo(snap, r.games[id])
        /\ UNCHANGED <<reqs, base, resp, csrfVars, roomVars>>

DoCreateKeep == \E id \in GameIds, c \in TwoConfigs, keep \in BOOLEAN : CreateGameKeep(id, c, keep)

DoMoveKeep ==
    \E id \in DOMAIN games, c \in TwoCells, keep \in BOOLEAN : ApplyMoveKeep(id, c[1], c[2], keep)

DoUndoKeep ==
    \E id \in DOMAIN games, steps \in 1..MaxSteps, keep \in BOOLEAN : UndoKeep(id, steps, keep)

NextSnap == DoCreateKeep \/ DoMoveKeep \/ DoUndoKeep

SpecSnap == Init /\ [][NextSnap]_vars

\* ------------------------------- requests to games.controller.js
\* POST /games/:id/move answered by makeMove of games.controller.js
MakeMove(id, body) ==
    LET r == makeMove(games, id, body)
    IN  /\ games' = r.games
        /\ resp' = [handler |-> "makeMove", id |-> id, body |-> body,
                    status |-> r.res.status, error |-> r.res.error]
        /\ last' = IF r.called
                   THEN [op |-> "applyMove", id |-> id, x |-> body.x, y |-> body.y,
                         steps |-> 0,
                         from |-> IF id \in DOMAIN games THEN games[id].status ELSE Null,
                         code |-> r.code, undone |-> 0]
                   ELSE last
        /\ UNCHANGED <<ghost, reqs, base, csrfVars, snap, roomVars>>

\* POST /games/:id/undo answered by undoMove of games.controller.js
UndoMove(id, body) ==
    LET r == undoMove(games, id, body)
    IN  /\ games' = r.games
        /\ resp' = [handler |-> "undoMove", id |-> id, body |-> body,
                    status |-> r.res.status, error |-> r.res.error]
        /\ last' = IF r.called
                   THEN [op |-> "undo", id |-> id, x |-> 0, y |-> 0,
                         steps |-> stepsOf(body),
                         from |-> IF id \in DOMAIN games THEN games[id].status ELSE Null,
                         code |-> r.code, undone |-> 0]
                   ELSE last
        /\ UNCHANGED <<ghost, reqs, base, csrfVars, snap, roomVars>>

\* the ids of req.params: of a game, made up, or empty
ParamIds == GameIds \cup {UnknownId, ""}

\* the bodies of move requests for this id: the cells a caller sends to the
\* game (free, taken, outside the board), or a body that lacks a coordinate
MoveBodiesFor(id) ==
    {[x |-> c[1], y |-> c[2]] :
        c \in IF id \in DOMAIN games
              THEN CellsFor(games[id].size, Len(games[id].moves))
              ELSE {<<0, 0>>}}
        \cup {[k \in {"x"} |-> 0], [k \in {} |-> 0]}

\* the bodies of undo requests: steps given, or left to its default
UndoBodies == {[steps |-> n] : n \in 0..MaxSteps} \cup {[k \in {} |-> 0]}

\* the games newGame of this controller lets through: size 5..25, winLength 3..size
CjsConfigs == {c \in Configs : c.size = 5}

DoCreateCjs == \E id \in GameIds, c \in CjsConfigs : CreateGame(id, c)

DoMakeMove == \E id \in ParamIds : \E body \in MoveBodiesFor(id) : MakeMove(id, body)

DoUndoMove == \E id \in ParamIds, body \in UndoBodies : UndoMove(id, body)

NextCjs == DoCreateCjs \/ DoMakeMove \/ DoUndoMove

SpecCjs == Init /\ [][NextCjs]_vars

\* --------------------------------------------- concurrent move requests
\* A request arrives and waits for its handler; handlers run one at a time
\* and to completion (applyMove has no await), in any order.

\* the request targets an empty in-bounds cell of an Ongoing game
Legal(gs, id, x, y) ==
    /\ id \in DOMAIN gs
    /\ gs[id].status = "ongoing"
    /\ x >= 0 /\ y >= 0 /\ x < gs[id].size /\ y < gs[id].size
    /\ gs[id].board[y][x] = Null

\* POST /games/:id/move arrives while request o may be waiting
Arrive(r, id, x, y) ==
    /\ reqs[r].st = "idle"
    /\ reqs' = [reqs EXCEPT ![r] = [st |-> "pending", id |-> id, x |-> x, y |-> y,
                                     code |-> Null]]
    /\ base' = IF \E o \in ReqIds \ {r} :
                      /\ reqs[o].st = "pending"
                      /\ reqs[o].id = id
                      /\ <<reqs[o].x, reqs[o].y>> # <<x, y>>
                      /\ Legal(games, id, x, y)
                      /\ Legal(games, id, reqs[o].x, reqs[o].y)
               THEN [armed |-> TRUE, games |-> games]
               ELSE NoBase
    /\ UNCHANGED <<games, ghost, last, resp, csrfVars, snap, roomVars>>

\* the handler of a waiting request runs: await applyMove({gameId, x, y})
Handle(r) ==
    /\ reqs[r].st = "pending"
    /\ LET res == applyMove(games, reqs[r].id, reqs[r].x, reqs[r].y)
       IN  /\ games' = res.games
           /\ reqs' = [reqs EXCEPT ![r].st = "done", ![r].code = res.code]
           /\ last' = [op |-> "applyMove", id |-> reqs[r].id,
                       x |-> reqs[r].x, y |-> reqs[r].y, steps |-> 0,
                       from |-> IF reqs[r].id \in DOMAIN games
                                THEN games[reqs[r].id].status ELSE Null,
                       code |-> res.code, undone |-> 0]
    /\ UNCHANGED <<ghost, base, resp, csrfVars, snap, roomVars>>

\* the response of an answered request is gone
Clear(r) ==
    /\ reqs[r].st = "done"
    /\ reqs' = [reqs EXCEPT ![r] = NoReq]
    /\ base' = NoBase
    /\ UNCHANGED <<games, ghost, last, resp, csrfVars, snap, roomVars>>

\* the games the concurrent callers play
ConcConfigs == {c \in Configs : c.size <= 3 /\ c.allowOverlines}

\* in-bounds cells the concurrent callers send
ConcCells(size, n) == CellsFor(size, n) \ OutCells(size)

DoCreateConc == \E id \in GameIds, c \in ConcConfigs : CreateGame(id, c)

DoArrive ==
    \E r \in ReqIds, id \in DOMAIN games :
        \E c \in ConcCells(games[id].size, Len(games[id].moves)) : Arrive(r, id, c[1], c[2])

DoHandle == \E r \in ReqIds : Handle(r)

DoClear == \E r \in ReqIds : Clear(r)

NextConc == DoCreateConc \/ DoArrive \/ DoHandle \/ DoClear

SpecConc == Init /\ [][NextConc]_vars

\* ------------------------------------------------- socket room handler
\* player !== currentPlayer check left out of validateMove
validateMoveNoTurn(board, row, col, player, currentPlayer, lastPlayer) ==
    LET size == BoardLen(board)
    IN  IF row < 0 \/ row >= size \/ col < 0 \/ col >= size
        THEN [valid |-> FALSE, reason |-> "Move out of bounds"]
        ELSE IF board[row][col] # Null
        THEN [valid |-> FALSE, reason |-> "Cell is already occupied"]
        ELSE [valid |-> TRUE, reason |-> Null]

\* validateMove without the emptiness check
validateMoveNoEmptiness(board, row, col, player, currentPlayer, lastPlayer) ==
    LET size == BoardLen(board)
    IN  IF row < 0 \/ row >= size \/ col < 0 \/ col >= size
        THEN [valid |-> FALSE, reason |-> "Move out of bounds"]
        ELSE IF player # currentPlayer
        THEN [valid |-> FALSE, reason |-> "Not your turn"]
        ELSE IF lastPlayer = player
        THEN [valid |-> FALSE, reason |-> "Cannot move twice in a row"]
        ELSE [valid |-> TRUE, reason |-> Null]

\* validateMove({board, move: {row, col, player}, currentPlayer, lastPlayer})
validateMove(board, row, col, player, currentPlayer, lastPlayer) ==
    LET size == BoardLen(board)
    IN  IF row < 0 \/ row >= size \/ col < 0 \/ col >= size
        THEN [valid |-> FALSE, reason |-> "Move out of bounds"]
        ELSE IF board[row][col] # Null
        THEN [valid |-> FALSE, reason |-> "Cell is already occupied"]
        ELSE IF player # currentPlayer
        THEN [valid |-> FALSE, reason |-> "Not your turn"]
        ELSE IF lastPlayer = player
        THEN [valid |-> FALSE, reason |-> "Cannot move twice in a row"]
        ELSE [valid |-> TRUE, reason |-> Null]

\* board.flat().filter(Boolean).length, summed row by row from row i on
RECURSIVE flatCountFrom(_, _)
flatCountFrom(board, i) ==
    IF i \notin DOMAIN board
    THEN 0
    ELSE Cardinality({col \in DOMAIN board[i] : board[i][col] # Null})
         + flatCountFrom(board, i + 1)

flatCount(board) == flatCountFrom(board, 0)

\* lastPlayer = count % 2 === 0 ? "W" : "B"
lastPlayerOf(board) == IF flatCount(board) % 2 = 0 THEN "W" ELSE "B"

\* currentPlayer = lastPlayer === "B" ? "W" : "B"
currentPlayerOf(lastPlayer) == IF lastPlayer = "B" THEN "W" ELSE "B"

\* rooms[roomId]?.players?.indexOf(player), 0-based; -1 if absent, -2 for
\* the undefined of a missing room
playerIndex(rs, roomId, player) ==
    IF roomId \notin DOMAIN rs
    THEN -2
    ELSE IF \E i \in 1..Len(rs[roomId]) : rs[roomId][i] = player
    THEN (CHOOSE i \in 1..Len(rs[roomId]) :
              /\ rs[roomId][i] = player
              /\ \A j \in 1..(i - 1) : rs[roomId][j] # player) - 1
    ELSE -1

\* playerColor = playerIndex === 0 ? "B" : "W"
playerColor(rs, roomId, player) == IF playerIndex(rs, roomId, player) = 0 THEN "B" ELSE "W"

\* players.filter((p) => p !== socket.id)
RECURSIVE without(_, _)
without(players, sock) ==
    IF players = << >>
    THEN << >>
    ELSE IF Head(players) = sock
    THEN without(Tail(players), sock)
    ELSE <<Head(players)>> \o without(Tail(players), sock)

\* socket.on("join", roomId)
Join(sock, roomId) ==
    /\ sock \in Sockets
    /\ roomId \in DOMAIN rooms => Len(rooms[roomId]) < MaxPlayers
    /\ members' = [members EXCEPT ![roomId] = @ \cup {sock}]
    /\ IF roomId \notin DOMAIN rooms
       THEN /\ rooms' = rooms @@ (roomId :> <<sock>>)
            /\ boards' = (roomId :> createEmptyBoard(RoomSize)) @@ boards
       ELSE /\ rooms' = [rooms EXCEPT ![roomId] = Append(@, sock)]
            /\ UNCHANGED boards
    /\ rlast' = [NoEmit EXCEPT !.op = "join", !.sender = sock, !.room = roomId,
                               !.out = <<emitRoomData(members'[roomId], rooms'[roomId])>>]
    /\ UNCHANGED <<gameVars, httpVars>>

\* socket.on("move", {roomId, row, col, player}) with the falsy roomId
MoveBadData(sock, row, col) ==
    /\ sock \in Sockets
    /\ rlast' = [NoEmit EXCEPT
                    !.op = "move", !.sender = sock, !.room = "", !.row = row, !.col = col,
                    !.reason = "Invalid move data",
                    !.out = <<emitMoveResult(sock, [valid |-> FALSE,
                                                    reason |-> "Invalid move data"])>>]
    /\ UNCHANGED <<rooms, boards, members, gameVars, httpVars>>

\* socket.to(roomId).emit("move", {row, col, by: playerColor})
emitMove(to, row, col, by) ==
    emission("move", to, << >>, row, col, by, FALSE, Null)

\* Move that broadcasts the move before it looks at result.valid
MoveBroadcastAlways(sock, roomId, row, col, player) ==
    /\ sock \in Sockets
    /\ LET bs == IF roomId \in DOMAIN boards
                 THEN boards
                 ELSE boards @@ (roomId :> createEmptyBoard(RoomSize))
           board == bs[roomId]
       IN  \E lastPlayer \in {lastPlayerOf(board)} :
           LET currentPlayer == currentPlayerOf(lastPlayer)
               color == playerColor(rooms, roomId, player)
               result == validateMove(board, row, col, color, currentPlayer, lastPlayer)
           IN  /\ boards' = IF result.valid
                            THEN [bs EXCEPT ![roomId][row][col] = color]
                            ELSE bs
               /\ rlast' = [op |-> "move", sender |-> sock, room |-> roomId,
                            row |-> row, col |-> col, color |-> color,
                            turn |-> currentPlayer,
                            free |-> /\ row \in DOMAIN board /\ col \in DOMAIN board
                                     /\ board[row][col] = Null,
                            valid |-> result.valid, reason |-> result.reason,
                            pair |-> /\ rlast.op = "move" /\ rlast.room = roomId
                                     /\ rlast.valid /\ rlast.color = color
                                     /\ <<rlast.row, rlast.col>> # <<row, col>>,
                            out |-> <<emitMoveResult(sock, result),
                                      emitMove(members[roomId] \ {sock},
                                               row, col, color)>>]
    /\ UNCHANGED <<rooms, members, gameVars, httpVars>>

\* socket.on("move", {roomId, row, col, player}) with numbers and a roomId
Move(sock, roomId, row, col, player) ==
    /\ sock \in Sockets
    /\ LET bs == IF roomId \in DOMAIN boards
                 THEN boards
                 ELSE boards @@ (roomId :> createEmptyBoard(RoomSize))
           board == bs[roomId]
       IN  \E lastPlayer \in {lastPlayerOf(board)} :
           LET currentPlayer == currentPlayerOf(lastPlayer)
               color == playerColor(rooms, roomId, player)
               result == validateMove(board, row, col, color, currentPlayer, lastPlayer)
           IN  /\ boards' = IF result.valid
                            THEN [bs EXCEPT ![roomId][row][col] = color]
                            ELSE bs
               /\ rlast' = [op |-> "move", sender |-> sock, room |-> roomId,
                            row |-> row, col |-> col, color |-> color,
                            turn |-> currentPlayer,
                            free |-> /\ row \in DOMAIN board /\ col \in DOMAIN board
                                     /\ board[row][col] = Null,
                            valid |-> result.valid, reason |-> result.reason,
                            pair |-> /\ rlast.op = "move" /\ rlast.room = roomId
                                     /\ rlast.valid /\ rlast.color = color
                                     /\ <<rlast.row, rlast.col>> # <<row, col>>,
                            out |-> <<emitMoveResult(sock, result)>> \o
                                    (IF result.valid
                                     THEN <<emitMove(members[roomId] \ {sock},
                                                     row, col, color)>>
                                     ELSE << >>)]
    /\ UNCHANGED <<rooms, members, gameVars, httpVars>>

\* the roomData of the loop of disconnect, one per room of rooms
RECURSIVE roomDataAll(_, _, _)
roomDataAll(rs, ms, ids) ==
    IF ids = {}
    THEN << >>
    ELSE LET r == CHOOSE r \in ids : TRUE
         IN  <<emitRoomData(ms[r], rs[r])>> \o roomDataAll(rs, ms, ids \ {r})

\* Disconnect that deletes a room and its board once its players list is empty
DisconnectCleanup(sock) ==
    /\ sock \in Sockets
    /\ LET kept == {r \in DOMAIN rooms : without(rooms[r], sock) # << >>}
       IN  /\ rooms' = [r \in kept |-> without(rooms[r], sock)]
           /\ boards' = [r \in DOMAIN boards \ (DOMAIN rooms \ kept) |-> boards[r]]
           /\ members' = [r \in DOMAIN members |-> members[r] \ {sock}]
           /\ rlast' = [NoEmit EXCEPT !.op = "disconnect", !.sender = sock,
                                      !.out = roomDataAll(rooms', members', kept)]
    /\ UNCHANGED <<gameVars, httpVars>>

\* socket.on("disconnect")
Disconnect(sock) ==
    /\ sock \in Sockets
    /\ rooms' = [r \in DOMAIN rooms |-> without(rooms[r], sock)]
    /\ members' = [r \in DOMAIN members |-> members[r] \ {sock}]
    /\ rlast' = [NoEmit EXCEPT !.op = "disconnect", !.sender = sock,
                               !.out = roomDataAll(rooms', members', DOMAIN rooms)]
    /\ UNCHANGED <<boards, gameVars, httpVars>>

DoJoin == \E sock \in Sockets, roomId \in RoomIds : Join(sock, roomId)

DoMoveBadData == \E sock \in Sockets : MoveBadData(sock, 0, 0)

\* the player field of a message is any socket id the client likes
DoRoomMove ==
    \E sock \in Sockets, roomId \in RoomIds, c \in RoomCells, player \in Sockets :
        Move(sock, roomId, c[1], c[2], player)

DoDisconnect == \E sock \in Sockets : Disconnect(sock)

NextRoom == DoJoin \/ DoMoveBadData \/ DoRoomMove \/ DoDisconnect

SpecRoom == Init /\ [][NextRoom]_vars

\* ------------------------------------------------- a match in a room
\* The members of a room play a match out: the <<row, col>> of the k-th
\* accepted stone follow an opening that gives Black row 0 and White row 1,
\* columns 0..3, and then any of three cells is named.
RoomOpening ==
    << <<0, 0>>, <<1, 0>>, <<0, 1>>, <<1, 1>>, <<0, 2>>, <<1, 2>>, <<0, 3>>, <<1, 3>> >>

RoomFree == {<<0, 4>>, <<1, 4>>, <<7, 7>>}

\* the cells the clients send to a board with n stones
RoomCellsFor(n) ==
    IF n < Len(RoomOpening) THEN {RoomOpening[n + 1]} ELSE RoomFree

DoRoomPlay ==
    \E sock \in Sockets, roomId \in DOMAIN boards, player \in Sockets :
        \E c \in RoomCellsFor(flatCount(boards[roomId])) :
            Move(sock, roomId, c[1], c[2], player)

NextRoomPlay == DoJoin \/ DoRoomPlay \/ DoDisconnect

SpecRoomPlay == Init /\ [][NextRoomPlay]_vars

\* ------------------------------------------------- csrf.middleware.js
\* A token or header is a sequence of characters.
\* the lower-case hex digits toString("hex") writes (two of the sixteen)
LowerHex == {"a", "b"}

\* the value of a hex digit as Buffer.from(s, "hex") reads it, -1 for any
\* other character; upper and lower case read alike
hexValue(c) ==
    IF c \in {"a", "A"} THEN 10
    ELSE IF c \in {"b", "B"} THEN 11
    ELSE -1

\* the tokens crypto.randomBytes(TokenBytes).toString("hex") can be
Tokens == [1..(2 * TokenBytes) -> LowerHex]

RECURSIVE hexDecodeFrom(_, _)
\* Buffer.from(s, "hex") from character i on: one byte per pair of hex
\* digits, stopping at the first pair that is not two hex digits and dropping
\* a single trailing digit
hexDecodeFrom(s, i) ==
    IF i + 1 > Len(s) THEN << >>
    ELSE IF hexValue(s[i]) < 0 \/ hexValue(s[i + 1]) < 0 THEN << >>
    ELSE <<16 * hexValue(s[i]) + hexValue(s[i + 1])>> \o hexDecodeFrom(s, i + 2)

hexDecode(s) == hexDecodeFrom(s, 1)

\* tokensEqualHex(a, b): both decoded, equal lengths, timingSafeEqual
tokensEqualHex(a, b) ==
    LET aBuf == hexDecode(a)
        bBuf == hexDecode(b)
    IN  IF Len(aBuf) # Len(bBuf) THEN FALSE ELSE aBuf = bBuf

\* res.status(403).json({success: false, message, code})
csrfReject(ss, code, exposed) ==
    [sessions |-> ss, status |-> 403, code |-> code, next |-> FALSE, exposed |-> exposed]

\* return next()
csrfPass(ss, exposed) ==
    [sessions |-> ss, status |-> 0, code |-> Null, next |-> TRUE, exposed |-> exposed]

\* generateCsrfToken(session) with token the value randomBytes returns
generateCsrfToken(ss, sid, token) == [ss EXCEPT ![sid] = token]

\* csrfProtection(req, res, next): sid is req.session, header the
\* X-CSRF-Token request header (empty when absent), fresh the token
\* randomBytes returns if one is generated
csrfProtection(ss, sid, method, header, fresh) ==
    IF sid = NoSession
    THEN csrfReject(ss, "CSRF_SESSION_MISSING", NoToken)
    ELSE LET ss1 == IF ss[sid] = NoToken THEN generateCsrfToken(ss, sid, fresh) ELSE ss
         IN  IF method \in {"GET", "HEAD", "OPTIONS"}
             THEN csrfPass(ss1, ss1[sid])
             ELSE IF header = << >>
             THEN csrfReject(ss1, "CSRF_MISSING", ss1[sid])
             ELSE IF ~tokensEqualHex(header, ss1[sid])
             THEN csrfReject(ss1, "CSRF_INVALID", ss1[sid])
             ELSE csrfPass(ss1, ss1[sid])

\* rotateCsrfToken that returns the token the session has
rotateCsrfTokenKeep(ss, sid, fresh) ==
    IF sid = NoSession
    THEN [sessions |-> ss, returned |-> NoToken]
    ELSE [sessions |-> ss, returned |-> ss[sid]]

\* rotateCsrfToken(req)
rotateCsrfToken(ss, sid, fresh) ==
    IF sid = NoSession
    THEN [sessions |-> ss, returned |-> NoToken]
    ELSE [sessions |-> generateCsrfToken(ss, sid, fresh), returned |-> fresh]

\* a request passes through the middleware
CsrfProtection(sid, method, header, fresh) ==
    LET r == csrfProtection(sessions, sid, method, header, fresh)
    IN  /\ sessions' = r.sessions
        /\ issued' = IF sessions' # sessions THEN issued \cup {fresh} ELSE issued
        /\ clast' = [op |-> "csrfProtection", sid |-> sid, method |-> method,
                     header |-> header,
                     before |-> IF sid = NoSession THEN NoToken ELSE sessions[sid],
                     status |-> r.status, code |-> r.code, next |-> r.next,
                     exposed |-> r.exposed, returned |-> NoToken]
        /\ UNCHANGED <<gameVars, reqs, base, resp, snap, roomVars>>

\* a route (login) rotates the token of the request's session
RotateCsrfToken(sid, fresh) ==
    LET r == rotateCsrfToken(sessions, sid, fresh)
    IN  /\ sessions' = r.sessions
        /\ issued' = IF sid # NoSession THEN issued \cup {fresh} ELSE issued
        /\ clast' = [op |-> "rotateCsrfToken", sid |-> sid, method |-> "POST",
                     header |-> << >>,
                     before |-> IF sid = NoSession THEN NoToken ELSE sessions[sid],
                     status |-> 0, code |-> Null, next |-> FALSE,
                     exposed |-> NoToken, returned |-> r.returned]
        /\ UNCHANGED <<gameVars, reqs, base, resp, snap, roomVars>>

\* req.method of the requests
Methods == {"GET", "HEAD", "OPTIONS", "POST", "PUT", "PATCH", "DELETE"}

\* a token with its first digit in upper case
upperFirst(t) == <<IF t[1] = "a" THEN "A" ELSE "B">> \o Tail(t)

\* the X-CSRF-Token headers clients send: none, strings that are no hex, and,
\* of each token a response has shown so far, the token itself, the token
\* with its first digit in upper case and the token followed by one more
\* character (a hex digit, or none); a token not yet generated is in no header
Headers ==
    {<< >>, <<"z">>, <<"z", "z">>, <<"z", "a">>}
        \cup issued
        \cup {upperFirst(t) : t \in issued}
        \cup {t \o <<c>> : t \in issued, c \in {"a", "z"}}

\* the value randomBytes returns next: one it has not returned before
FreshTokens == Tokens \ issued

DoCsrfProtection ==
    \E sid \in SessionIds \cup {NoSession}, method \in Methods, header \in Headers :
        \E fresh \in FreshTokens : CsrfProtection(sid, method, header, fresh)

DoRotate ==
    \E sid \in SessionIds \cup {NoSession} :
        \E fresh \in FreshTokens : RotateCsrfToken(sid, fresh)

NextCsrf == DoCsrfProtection \/ DoRotate

SpecCsrf == Init /\ [][NextCsrf]_vars

\* ------------------------------------------------------ claim vocabulary
\* the other colour, stated apart from the source's next
Opp(p) == IF p = "B" THEN "W" ELSE IF p = "W" THEN "B" ELSE Null

\* number of non-Empty cells
Stones(board) ==
    Cardinality({c \in (DOMAIN board) \X (DOMAIN board) : board[c[2]][c[1]] # Null})

NoEmptyCell(board) ==
    Stones(board) = Cardinality(DOMAIN board) * Cardinality(DOMAIN board)

InBoard(board, x, y) == x \in DOMAIN board /\ y \in DOMAIN board

Axes == {<<1, 0>>, <<0, 1>>, <<1, 1>>, <<1, -1>>}

\* length of the maximal run of player through (x, y) along axis d: the
\* offsets k whose cells, and all cells between them and (x, y), hold player
RunLen(board, x, y, d, player) ==
    LET n == Cardinality(DOMAIN board)
        Held(k) == /\ InBoard(board, x + k * d[1], y + k * d[2])
                   /\ board[y + k * d[2]][x + k * d[1]] = player
        Lo(k) == IF k < 0 THEN k ELSE 0
        Hi(k) == IF k < 0 THEN 0 ELSE k
    IN  Cardinality({k \in (1 - n)..(n - 1) : \A j \in Lo(k)..Hi(k) : Held(j)})

\* the win condition of the configuration on a run length
Qualifies(total, winLength, allowOverlines) ==
    IF allowOverlines THEN total >= winLength ELSE total = winLength

LastMove(g) == g.moves[Len(g.moves)]

\* the step is a successful applyMove / undo on game id
MovedOK(id) ==
    /\ last'.op = "applyMove" /\ last'.code = "OK" /\ last'.id = id
    /\ games' # games

UndoneOK(id) ==
    /\ last'.op = "undo" /\ last'.code = "OK" /\ last'.id = id
    /\ games' # games

\* ------------------------------------------------------------- claims
\* C3: in every reachable state of a game the length of the move log equals
\* the number of non-Empty cells of the board.
C3_LogMatchesBoard ==
    \A id \in DOMAIN games : Len(games[id].moves) = Stones(games[id].board)

\* a game that was undone and played on holds at least two stones
C3_Witness ==
    \E id \in DOMAIN games :
        /\ ghost[id].undone
        /\ Len(games[id].moves) >= 2
        /\ last.op = "applyMove" /\ last.code = "OK"

\* C4: status is Won or Draw iff nextPlayer is null; status is Ongoing iff
\* nextPlayer is one of the two players.
C4_TerminalIffNoNext ==
    \A id \in DOMAIN games :
        /\ games[id].status \in {"won", "draw"} <=> games[id].nextPlayer = Null
        /\ games[id].status = "ongoing" <=> games[id].nextPlayer \in Players

\* a drawn game and a game revived by undo both occur
C4_Witness ==
    \E id \in DOMAIN games :
        /\ games[id].status = "draw"
        /\ games[id].nextPlayer = Null
        /\ ghost[id].undone

\* C5: status is Won iff winner is set; when set, winner is the player
\* recorded on the last move of the log.
C5_WonIffWinner ==
    \A id \in DOMAIN games :
        /\ games[id].status = "won" <=> games[id].winner # Null
        /\ games[id].winner # Null =>
              /\ Len(games[id].moves) > 0
              /\ games[id].winner = LastMove(games[id]).player

\* a game won by White after an undo
C5_Witness ==
    \E id \in DOMAIN games :
        /\ games[id].status = "won"
        /\ games[id].winner = "W"
        /\ ghost[id].undone

\* C6 as stated: status is Draw iff the board is full.
C6_DrawIffFull ==
    \A id \in DOMAIN games :
        games[id].status = "draw" <=> NoEmptyCell(games[id].board)

\* C6 amended: status is Draw iff the board is full and the move that filled
\* it did not win (no winner is set).
C6_DrawIffFullNoWinner ==
    \A id \in DOMAIN games :
        games[id].status = "draw" <=>
            (NoEmptyCell(games[id].board) /\ games[id].winner = Null)

\* a drawn game on a full 3x3 board
C6_Witness ==
    \E id \in DOMAIN games :
        /\ games[id].status = "draw"
        /\ games[id].size = 3
        /\ NoEmptyCell(games[id].board)

\* C7: with no undo, the k-th move (from 0) is recorded with firstPlayer when
\* k is even and with the other player when k is odd, and while the game is
\* Ongoing nextPlayer is the opposite of the player of the last move.
C7_TurnAlternation ==
    \A id \in DOMAIN games :
        ~ghost[id].undone =>
            /\ \A k \in 1..Len(games[id].moves) :
                  games[id].moves[k].player =
                      IF (k - 1) % 2 = 0 THEN ghost[id].firstPlayer
                                         ELSE Opp(ghost[id].firstPlayer)
            /\ (games[id].status = "ongoing" /\ Len(games[id].moves) > 0) =>
                  games[id].nextPlayer = Opp(LastMove(games[id]).player)

\* a game White opened, three moves on, never undone, still Ongoing
C7_Witness ==
    \E id \in DOMAIN games :
        /\ ghost[id].firstPlayer = "W"
        /\ ~ghost[id].undone
        /\ Len(games[id].moves) = 3
        /\ games[id].status = "ongoing"

\* C8: a successful applyMove sets status Won with winner = the mover iff on
\* the board after placement some axis through the placed cell has a run
\* total that is >= winLength (allowOverlines) or = winLength (otherwise).
C8_WinRule ==
    [][\A id \in DOMAIN games :
          MovedOK(id) =>
              LET g == games'[id]
                  m == LastMove(g)
              IN  (g.status = "won" /\ g.winner = games[id].nextPlayer) <=>
                  \E d \in Axes :
                      Qualifies(RunLen(g.board, m.x, m.y, d, games[id].nextPlayer),
                                g.config.winLength, g.config.allowOverlines)]_vars

\* six in a row with winLength 5 and allowOverlines reported Won
C8_Witness ==
    \E id \in DOMAIN games :
        /\ games[id].status = "won"
        /\ games[id].config.allowOverlines
        /\ games[id].config.winLength = 5
        /\ RunLen(games[id].board, LastMove(games[id]).x, LastMove(games[id]).y,
                  <<1, 0>>, games[id].winner) = 6

\* C9: with allowOverlines = false, a placement whose run is longer than
\* winLength on some axis and equal to winLength on none is not a win: no
\* winner, status Ongoing with the turn passed on, or Draw on a full board.
C9_ExactLength ==
    [][\A id \in DOMAIN games :
          MovedOK(id) =>
              LET g == games'[id]
                  m == LastMove(g)
                  p == games[id].nextPlayer
              IN  (/\ ~g.config.allowOverlines
                   /\ \E d \in Axes : RunLen(g.board, m.x, m.y, d, p) > g.config.winLength
                   /\ \A d \in Axes : RunLen(g.board, m.x, m.y, d, p) # g.config.winLength)
                  => /\ g.winner = Null
                     /\ g.status = IF NoEmptyCell(g.board) THEN "draw" ELSE "ongoing"
                     /\ g.status = "ongoing" => g.nextPlayer = Opp(p)]_vars

\* a sixth stone in a row placed with winLength 5, no overlines: game goes on
C9_Witness ==
    \E id \in DOMAIN games :
        /\ last.op = "applyMove" /\ last.code = "OK"
        /\ ~games[id].config.allowOverlines
        /\ games[id].status = "ongoing"
        /\ Len(games[id].moves) > 0
        /\ RunLen(games[id].board, LastMove(games[id]).x, LastMove(games[id]).y,
                  <<1, 0>>, LastMove(games[id]).player) = 6

\* C10: status changes only Ongoing -> Ongoing / Won / Draw by a successful
\* applyMove and any -> Ongoing by a successful undo; on a Won or Draw game
\* every applyMove fails with INVALID_STATE and changes nothing.
C10_StateMachine ==
    [][\A id \in DOMAIN games :
          /\ MovedOK(id) =>
                /\ games[id].status = "ongoing"
                /\ Len(games'[id].moves) = Len(games[id].moves) + 1
          /\ UndoneOK(id) => games'[id].status = "ongoing"
          /\ ~MovedOK(id) /\ ~UndoneOK(id) => games'[id] = games[id]
          /\ (last'.op = "applyMove" /\ last'.id = id
                 /\ games[id].status \in {"won", "draw"}) =>
                /\ last'.code = "INVALID_STATE"
                /\ games'[id] = games[id]]_vars

\* an applyMove was refused on a game that is won
C10_Witness ==
    \E id \in DOMAIN games :
        /\ last.op = "applyMove" /\ last.code = "INVALID_STATE" /\ last.id = id
        /\ games[id].status = "won"


\* C1: two concurrent applyMove requests on one game that target two different
\* empty in-bounds cells of the Ongoing game: once both are answered, every
\* one that succeeded has its stone on the stored board and its move in the
\* stored log, and if both succeeded the log is the old log plus exactly these
\* two moves and the board the old board plus exactly these two stones.
C1_NoLostUpdate ==
    (base.armed /\ \A r \in ReqIds : reqs[r].st = "done") =>
        LET id == reqs["r1"].id
            g0 == base.games[id]
            g == games[id]
            n0 == Len(g0.moves)
            OKs == {r \in ReqIds : reqs[r].code = "OK"}
        IN  /\ \A r \in OKs :
                  /\ g.board[reqs[r].y][reqs[r].x] \in Players
                  /\ \E k \in (n0 + 1)..Len(g.moves) :
                        /\ g.moves[k].x = reqs[r].x
                        /\ g.moves[k].y = reqs[r].y
                        /\ g.moves[k].player = g.board[reqs[r].y][reqs[r].x]
            /\ Len(g.moves) = n0 + Cardinality(OKs)
            /\ SubSeq(g.moves, 1, n0) = g0.moves
            /\ \A y \in DOMAIN g.board : \A x \in DOMAIN g.board :
                  (\A r \in OKs : <<reqs[r].x, reqs[r].y>> # <<x, y>>) =>
                      g.board[y][x] = g0.board[y][x]

\* both concurrent requests succeeded and the log grew by two
C1_Witness ==
    /\ base.armed
    /\ \A r \in ReqIds : reqs[r].st = "done" /\ reqs[r].code = "OK"
    /\ Len(games[reqs["r1"].id].moves) = Len(base.games[reqs["r1"].id].moves) + 2


\* C2: two move messages for one room handled one after the other, with
\* different coordinates (both free cells of the board), both submitted for
\* the colour whose turn it is: the first is accepted and the second is
\* rejected as not-your-turn; never both accepted.
C2_OneOfTwoAccepted ==
    [][(/\ rlast.op = "move" /\ rlast'.op = "move"
        /\ rlast.room # "" /\ rlast.room = rlast'.room
        /\ <<rlast.row, rlast.col>> # <<rlast'.row, rlast'.col>>
        /\ rlast.free /\ rlast'.free
        /\ rlast.color = rlast.turn /\ rlast'.color = rlast.turn)
       => /\ rlast.valid
          /\ ~rlast'.valid
          /\ rlast'.reason = "Not your turn"
          /\ boards' = boards]_vars

\* right after an accepted move, a second one for the same colour on another
\* free cell was refused
C2_Witness ==
    /\ rlast.op = "move" /\ rlast.pair /\ rlast.free
    /\ ~rlast.valid /\ rlast.reason = "Not your turn"

\* C11: whenever applyMove or undo fails (NOT_FOUND, INVALID_STATE,
\* OUT_OF_BOUNDS, OCCUPIED, BAD_REQUEST, NOTHING_TO_UNDO, and no other error
\* occurs), the stored state of every game is exactly what it was before the
\* call.
C11_FailureAtomicity ==
    [][(last'.op \in {"applyMove", "undo"} /\ last'.code # "OK") =>
          /\ last'.code \in {"NOT_FOUND", "INVALID_STATE", "OUT_OF_BOUNDS",
                              "OCCUPIED", "BAD_REQUEST", "NOTHING_TO_UNDO"}
          /\ games' = games]_vars

\* an applyMove on a taken cell of a game with stones on the board failed
C11_Witness ==
    \E id \in DOMAIN games :
        /\ last.op = "applyMove" /\ last.code = "OCCUPIED" /\ last.id = id
        /\ Len(games[id].moves) >= 2
        /\ games[id].status = "ongoing"

\* C12: after every successful undo, nextPlayer is the firstPlayer the game
\* was created with when the kept log is empty, and the opposite of the
\* player of the last kept move otherwise, for firstPlayer "B" and "W".
C12_UndoNextPlayer ==
    \A id \in DOMAIN games :
        (last.op = "undo" /\ last.code = "OK" /\ last.id = id) =>
            games[id].nextPlayer =
                IF Len(games[id].moves) = 0
                THEN ghost[id].firstPlayer
                ELSE Opp(LastMove(games[id]).player)

\* applyMove at the coordinates of the moves ms[i], ms[i+1], ... in order
RECURSIVE Redo(_, _, _, _)
Redo(gs, id, ms, i) ==
    IF i > Len(ms)
    THEN gs
    ELSE Redo(applyMove(gs, id, ms[i].x, ms[i].y).games, id, ms, i + 1)

\* C13: for every reachable game state with at least n >= 1 moves on the log,
\* undo(n) followed by applyMove at the coordinates of the n undone moves, in
\* their original order, reproduces the pre-undo board cell for cell.
C13_ReplayIdempotence ==
    \A id \in DOMAIN games :
        \A n \in 1..Len(games[id].moves) :
            LET L == Len(games[id].moves)
                u == undo(games, id, n)
                undone == SubSeq(games[id].moves, L - n + 1, L)
            IN  /\ u.code = "OK"
                /\ Redo(u.games, id, undone, 1)[id].board = games[id].board

\* C14: after a successful undo(steps) on a log of length L the log is the
\* first max(0, L - steps) entries of the previous log, unchanged and in order
\* (steps > L empties the log and reports undone = L), and the board holds
\* exactly the stones of the kept moves, every other cell Empty.
C14_UndoByReplay ==
    [][\A id \in DOMAIN games :
          (last'.op = "undo" /\ last'.code = "OK" /\ last'.id = id) =>
              LET L == Len(games[id].moves)
                  steps == last'.steps
                  keep == IF L - steps > 0 THEN L - steps ELSE 0
                  g == games'[id]
                  At(x, y) == {k \in 1..Len(g.moves) : g.moves[k].x = x /\ g.moves[k].y = y}
              IN  /\ steps >= 1
                  /\ Len(g.moves) = keep
                  /\ \A k \in 1..keep : g.moves[k] = games[id].moves[k]
                  /\ last'.undone = L - keep
                  /\ \A y \in DOMAIN g.board : \A x \in DOMAIN g.board :
                        /\ \A p \in Players :
                              g.board[y][x] = p <=> \E k \in At(x, y) : g.moves[k].player = p
                        /\ At(x, y) = {} => g.board[y][x] = Null]_vars

\* an undo took two or more moves off and left stones of both players
C14_Witness ==
    \E id \in DOMAIN games :
        /\ last.op = "undo" /\ last.code = "OK" /\ last.id = id
        /\ last.undone >= 2
        /\ Len(games[id].moves) >= 2

\* C15: from a state with status Won or Draw, undo(steps >= 1) succeeds and
\* yields status Ongoing with winner and winningLine cleared and nextPlayer a
\* player, after which applyMove on an empty in-bounds cell is accepted.
C15_UndoRevives ==
    [][\A id \in DOMAIN games :
          (/\ last'.op = "undo" /\ last'.id = id /\ last'.steps >= 1
           /\ games[id].status \in {"won", "draw"}) =>
              LET g == games'[id]
              IN  /\ last'.code = "OK"
                  /\ g.status = "ongoing"
                  /\ g.winner = Null
                  /\ g.winningLine = Null
                  /\ g.nextPlayer \in Players
                  /\ \E y \in DOMAIN g.board : \E x \in DOMAIN g.board :
                        g.board[y][x] = Null
                  /\ \A y \in DOMAIN g.board : \A x \in DOMAIN g.board :
                        g.board[y][x] = Null =>
                            LET r == applyMove(games', id, x, y)
                            IN  /\ r.code = "OK"
                                /\ r.games[id].board[y][x] = g.nextPlayer]_vars

\* an undo succeeded on a drawn game (full board) and left it Ongoing
C15_Witness ==
    \E id \in DOMAIN games :
        /\ last.op = "undo" /\ last.code = "OK" /\ last.id = id
        /\ last.from = "draw"
        /\ games[id].status = "ongoing"

\* the coordinates of the log, in order
Coords(g) == [k \in 1..Len(g.moves) |-> <<g.moves[k].x, g.moves[k].y>>]

\* C16: whenever status is Won, winningLine is set (non-null); after
\* create(size 5, firstPlayer "B", winLength 3, allowOverlines false) and
\* applyMove at (0,0), (1,0), (0,1), (1,1), (0,2) the state is Won, winner
\* "B", with a winningLine.
C16_WinningLineSet ==
    \A id \in DOMAIN games :
        /\ games[id].status = "won" => games[id].winningLine # Null
        /\ (/\ games[id].size = 5 /\ games[id].config.winLength = 3
            /\ ~games[id].config.allowOverlines
            /\ ghost[id].firstPlayer = "B" /\ ~ghost[id].undone
            /\ Coords(games[id]) = << <<0, 0>>, <<1, 0>>, <<0, 1>>, <<1, 1>>, <<0, 2>> >>)
           => /\ games[id].status = "won"
              /\ games[id].winner = "B"
              /\ games[id].winningLine # Null

\* the seat of a connection in a room: first joiner Black, second White,
\* anyone else (later joiner, not a member) none
SeatOf(rs, roomId, sock) ==
    IF roomId \notin DOMAIN rs \/ rs[roomId] = << >> THEN Null
    ELSE IF rs[roomId][1] = sock THEN "B"
    ELSE IF Len(rs[roomId]) >= 2 /\ rs[roomId][2] = sock THEN "W"
    ELSE Null

\* C17: a move message is accepted only when the colour assigned to the
\* connection that sent it is the colour whose turn it is, and the stone
\* placed is of that colour, whatever fields the message carries.
C17_NoImpersonation ==
    [][\A sock \in Sockets, roomId \in RoomIds, c \in RoomCells, player \in Sockets :
          (Move(sock, roomId, c[1], c[2], player) /\ rlast'.valid) =>
              /\ SeatOf(rooms, roomId, sock) = rlast'.turn
              /\ boards'[roomId][c[1]][c[2]] = SeatOf(rooms, roomId, sock)]_vars

\* C18: a room has two seats, first joiner Black, second White; a move sent
\* by a later joiner or by a connection that is not in the room (under its
\* own id) is never accepted and never changes the room's board, and a move
\* of a seated connection is evaluated for the colour of its seat.
C18_TwoSeats ==
    [][\A sock \in Sockets, roomId \in RoomIds, c \in RoomCells :
          Move(sock, roomId, c[1], c[2], sock) =>
              IF SeatOf(rooms, roomId, sock) = Null
              THEN /\ ~rlast'.valid
                   /\ roomId \in DOMAIN boards => boards'[roomId] = boards[roomId]
              ELSE rlast'.color = SeatOf(rooms, roomId, sock)]_vars

\* the connection is on the players list of the room
InRoom(rs, roomId, sock) ==
    /\ roomId \in DOMAIN rs
    /\ \E i \in 1..Len(rs[roomId]) : rs[roomId][i] = sock

\* C19: the colour under which a connection's moves are evaluated does not
\* change for as long as it stays in the room, whatever other connections
\* join or disconnect (the second joiner stays White after the first left).
C19_SeatStability ==
    [][\A roomId \in RoomIds, sock \in Sockets :
          (InRoom(rooms, roomId, sock) /\ InRoom(rooms', roomId, sock)) =>
              playerColor(rooms', roomId, sock) = playerColor(rooms, roomId, sock)]_vars

\* winLength of a game created with the defaults
RoomWinLength == 5

\* some colour has a run of RoomWinLength or more on the board of the room
RoomWon(board) ==
    \E row \in DOMAIN board : \E col \in DOMAIN board :
        /\ board[row][col] # Null
        /\ \E d \in Axes : RunLen(board, col, row, d, board[row][col]) >= RoomWinLength

\* C20: an accepted room move is applied with win detection: once a colour
\* has completed a winning run on the board of a room, every later move
\* message for that room is rejected.
C20_RoomTerminal ==
    [][(/\ rlast'.op = "move"
        /\ rlast'.room \in DOMAIN boards
        /\ RoomWon(boards[rlast'.room]))
       => /\ ~rlast'.valid
          /\ boards' = boards]_vars

\* the emits of the last handler with this event name
Emits(ev) == {i \in 1..Len(rlast'.out) : rlast'.out[i].ev = ev}

C22_OutOfBounds ==
    [][\A id \in DOMAIN games :
          (/\ last'.op = "applyMove" /\ last'.id = id
           /\ ~InBoard(games[id].board, last'.x, last'.y)) =>
              /\ last'.code = "OUT_OF_BOUNDS"
              /\ games' = games]_vars

\* C22 amended: applyMove with x or y outside [0, size) leaves the state
\* unchanged on any session; it fails with OUT_OF_BOUNDS on an Ongoing
\* session and with INVALID_STATE on a Won or Draw one.
C22_OutOfBoundsOngoing ==
    [][\A id \in DOMAIN games :
          (/\ last'.op = "applyMove" /\ last'.id = id
           /\ ~InBoard(games[id].board, last'.x, last'.y)) =>
              /\ last'.code = IF games[id].status = "ongoing"
                              THEN "OUT_OF_BOUNDS"
                              ELSE "INVALID_STATE"
              /\ games' = games]_vars

\* an out-of-bounds applyMove was refused on a game with stones on its board
C22_Witness ==
    \E id \in DOMAIN games :
        /\ last.op = "applyMove" /\ last.code = "OUT_OF_BOUNDS" /\ last.id = id
        /\ last.x = -1 /\ last.y = 0
        /\ Len(games[id].moves) >= 1

\* C23: applyMove validates status first (INVALID_STATE on a Won or Draw
\* game, also for a cell out of bounds or occupied), then bounds
\* (OUT_OF_BOUNDS), then occupancy (OCCUPIED); a move passing all three
\* succeeds and places the stone of the player to move.
C23_ValidationOrder ==
    [][\A id \in DOMAIN games :
          (last'.op = "applyMove" /\ last'.id = id) =>
              LET g == games[id]
                  x == last'.x
                  y == last'.y
              IN  /\ last'.code =
                        IF g.status \in {"won", "draw"} THEN "INVALID_STATE"
                        ELSE IF ~InBoard(g.board, x, y) THEN "OUT_OF_BOUNDS"
                        ELSE IF g.board[y][x] # Null THEN "OCCUPIED"
                        ELSE "OK"
                  /\ last'.code = "OK" =>
                        /\ games'[id].board[y][x] = g.nextPlayer
                        /\ Len(games'[id].moves) = Len(g.moves) + 1]_vars

\* an applyMove out of bounds on a game that is won was refused for its status
C23_Witness ==
    \E id \in DOMAIN games :
        /\ last.op = "applyMove" /\ last.code = "INVALID_STATE" /\ last.id = id
        /\ ~InBoard(games[id].board, last.x, last.y)
        /\ games[id].status = "won"

\* C24: undo on a game fails with BAD_REQUEST when steps < 1 (also when the
\* log is empty) and with NOTHING_TO_UNDO when steps >= 1 and the log is
\* empty, the game unchanged in both cases; with steps >= 1 and a non-empty
\* log it succeeds.
C24_UndoValidation ==
    [][\A id \in DOMAIN games :
          (last'.op = "undo" /\ last'.id = id) =>
              /\ last'.code =
                    IF last'.steps < 1 THEN "BAD_REQUEST"
                    ELSE IF Len(games[id].moves) = 0 THEN "NOTHING_TO_UNDO"
                    ELSE "OK"
              /\ last'.code # "OK" => games' = games
              /\ last'.code = "OK" =>
                    /\ last'.undone >= 1
                    /\ Len(games'[id].moves) = Len(games[id].moves) - last'.undone]_vars

\* undo with steps 0 on a game with an empty log was refused as BAD_REQUEST
C24_Witness ==
    \E id \in DOMAIN games :
        /\ last.op = "undo" /\ last.code = "BAD_REQUEST" /\ last.id = id
        /\ last.steps = 0
        /\ Len(games[id].moves) = 0

\* C25: in every reachable state of a game, also after undo followed by new
\* moves, the i-th entry of the log (0-based) carries index = i.
C25_LogIndices ==
    \A id \in DOMAIN games :
        \A k \in 1..Len(games[id].moves) : games[id].moves[k].index = k - 1

\* a move was appended to a log that an undo had cut before
C25_Witness ==
    \E id \in DOMAIN games :
        /\ ghost[id].undone
        /\ last.op = "applyMove" /\ last.code = "OK" /\ last.id = id
        /\ Len(games[id].moves) >= 3
        /\ LastMove(games[id]).index = Len(games[id].moves) - 1

\* C26: a disconnect removes the connection from the players of every room,
\* keeps the others in order, and sends the new list to the sockets left in
\* the room; it never removes a room or changes a board, and a join to a
\* room that exists leaves its board as it is: the game goes on.
C26_DisconnectKeepsGame ==
    [][/\ rlast'.op = "disconnect" =>
             /\ boards' = boards
             /\ DOMAIN rooms' = DOMAIN rooms
             /\ \A r \in DOMAIN rooms :
                   /\ rooms'[r] = SelectSeq(rooms[r], LAMBDA s : s # rlast'.sender)
                   /\ members'[r] = members[r] \ {rlast'.sender}
                   /\ \E i \in Emits("roomData") :
                         /\ rlast'.out[i].players = rooms'[r]
                         /\ rlast'.out[i].to = members'[r]
       /\ (rlast'.op = "join" /\ rlast'.room \in DOMAIN rooms) =>
             /\ boards' = boards
             /\ rooms'[rlast'.room] = Append(rooms[rlast'.room], rlast'.sender)]_vars

\* a connection joined a room that everyone had left, and the stones that
\* were played are still on its board
C26_Witness ==
    \E r \in DOMAIN rooms :
        /\ rlast.op = "join" /\ rlast.room = r
        /\ rooms[r] = <<rlast.sender>>
        /\ members[r] = {rlast.sender}
        /\ boards[r][0][0] = "B"
        /\ boards[r][0][1] = "W"

\* C27: getGameDTO, applyMove and undo called with a game id that no
\* createGame returned fail with NOT_FOUND, whatever their other arguments,
\* create no session and change no existing session.
C27_NotFound ==
    [][(/\ last'.op \in {"getGameDTO", "applyMove", "undo"}
        /\ last'.id \notin DOMAIN games)
       => /\ last'.code = "NOT_FOUND"
          /\ games' = games]_vars

\* undo with the malformed steps 0 on a made-up id was refused as NOT_FOUND
\* while a game with stones is stored
C27_Witness ==
    /\ last.op = "undo" /\ last.id = UnknownId /\ last.steps = 0
    /\ last.code = "NOT_FOUND"
    /\ \E id \in DOMAIN games : Len(games[id].moves) >= 1

\* C28: an operation (applyMove, undo, createGame) on one game id leaves
\* every other stored game (board, log, status, winner, nextPlayer) as it
\* was.
C28_SessionIsolation ==
    [][\A id \in DOMAIN games :
          last'.id # id =>
              /\ id \in DOMAIN games'
              /\ games'[id] = games[id]]_vars

\* a move was accepted on g2 while g1 holds other stones
C28_Witness ==
    /\ DOMAIN games = TwoIds
    /\ last.op = "applyMove" /\ last.code = "OK" /\ last.id = "g2"
    /\ Len(games["g1"].moves) = 2
    /\ games["g1"].board # games["g2"].board
    /\ games["g1"].board[last.y][last.x] = Null

\* C29: a successful applyMove changes exactly one cell of the board, the
\* target, from Empty to the mover's colour; no operation other than undo
\* turns a non-Empty cell back to Empty or changes its colour.
C29_OneCellPerMove ==
    [][\A id \in DOMAIN games :
          /\ (last'.op = "applyMove" /\ last'.code = "OK" /\ last'.id = id) =>
                /\ games[id].board[last'.y][last'.x] = Null
                /\ games[id].nextPlayer \in Players
                /\ games'[id].board =
                      [games[id].board EXCEPT ![last'.y][last'.x] = games[id].nextPlayer]
          /\ last'.op # "undo" =>
                \/ games'[id].board = games[id].board
                \/ \A y \in DOMAIN games[id].board : \A x \in DOMAIN games[id].board :
                      games[id].board[y][x] # Null =>
                          games'[id].board[y][x] = games[id].board[y][x]]_vars

\* a stone was placed at an off-diagonal cell of a board that held stones
C29_Witness ==
    \E id \in DOMAIN games :
        /\ last.op = "applyMove" /\ last.code = "OK" /\ last.id = id
        /\ last.x # last.y
        /\ Len(games[id].moves) >= 3
        /\ games[id].board[last.y][last.x] = LastMove(games[id]).player

\* the error codes the engine throws
EngineErrors ==
    {"NOT_FOUND", "INVALID_STATE", "OUT_OF_BOUNDS", "OCCUPIED", "BAD_REQUEST", "NOTHING_TO_UNDO"}

\* C30: a makeMove or undoMove request that passed the handler's own checks,
\* and for which the engine operation of the route (applyMove, undo) throws an
\* error code, is answered with that code in the body and a 4xx status.
C30_TypedErrors ==
    [][/\ resp'.id # ""
       /\ \/ resp'.handler = "makeMove" /\ DOMAIN resp'.body = {"x", "y"}
          \/ resp'.handler = "undoMove" /\ stepsOf(resp'.body) >= 1
       => LET code == IF resp'.handler = "makeMove"
                      THEN applyMove(games, resp'.id, resp'.body.x, resp'.body.y).code
                      ELSE undo(games, resp'.id, stepsOf(resp'.body)).code
          IN  code \in EngineErrors =>
                  /\ resp'.error = code
                  /\ resp'.status \in 400..499]_vars

\* C31: csrfProtection calls next on a state-changing request only if the
\* request has a session and its X-CSRF-Token header equals the token stored
\* in that session; otherwise it answers 403 with CSRF_SESSION_MISSING,
\* CSRF_MISSING or CSRF_INVALID and does not call next.  GET, HEAD and OPTIONS
\* with a session pass without a token.
C31_CsrfValidation ==
    clast.op = "csrfProtection" =>
        /\ clast.next <=>
              /\ clast.sid # NoSession
              /\ \/ clast.method \in {"GET", "HEAD", "OPTIONS"}
                 \/ clast.header = sessions[clast.sid]
        /\ ~clast.next =>
              /\ clast.status = 403
              /\ clast.code \in {"CSRF_SESSION_MISSING", "CSRF_MISSING", "CSRF_INVALID"}

\* an X-CSRF-Token header reached a state-changing request of a session
CsrfChecked ==
    /\ clast.op = "csrfProtection"
    /\ clast.sid # NoSession
    /\ clast.method \notin {"GET", "HEAD", "OPTIONS"}
    /\ clast.header # << >>

C33_TurnCheckFirst ==
    (rlast.op = "move" /\ rlast.color # rlast.turn) =>
        /\ ~rlast.valid
        /\ rlast.reason = "Not your turn"

\* the cell (x, y) of the board holds player; cells outside hold nobody
Holds(board, x, y, player) == InBoard(board, x, y) /\ board[y][x] = player

\* somewhere on the board a run of some player along some axis satisfies the
\* win condition: w stones in a row from (x, y) on, and with exact length no
\* stone of the player right before or right after them
WinOnBoard(board, w, allowOverlines) ==
    \E y \in DOMAIN board : \E x \in DOMAIN board :
        /\ board[y][x] # Null
        /\ \E d \in Axes :
              /\ \A k \in 1..(w - 1) : Holds(board, x + k * d[1], y + k * d[2], board[y][x])
              /\ \/ allowOverlines
                 \/ /\ ~Holds(board, x - d[1], y - d[2], board[y][x])
                    /\ ~Holds(board, x + w * d[1], y + w * d[2], board[y][x])

\* C34: in every state with status Ongoing, after any sequence of applyMove
\* and undo, the board holds no run, of either player on any axis anywhere,
\* that satisfies the win condition of the game.
C34_NoUndetectedWin ==
    \A id \in DOMAIN games :
        games[id].status = "ongoing" =>
            ~WinOnBoard(games[id].board, games[id].config.winLength,
                        games[id].config.allowOverlines)

\* an undo took a won game back to Ongoing, one stone short of the run
C34_Witness ==
    \E id \in DOMAIN games :
        /\ last.op = "undo" /\ last.code = "OK" /\ last.id = id /\ last.from = "won"
        /\ games[id].status = "ongoing"
        /\ WinOnBoard(games[id].board, games[id].config.winLength - 1, TRUE)
        /\ games[id].config.winLength >= 3

\* C35: in every state of a game, after any undo and the moves that follow
\* it too, consecutive entries of the move log have different players, no two
\* entries have the same coordinates, and while the status is Ongoing with a
\* non-empty log nextPlayer is the opposite of the last entry's player.
C35_LogAlternates ==
    \A id \in DOMAIN games :
        LET ms == games[id].moves
        IN  /\ \A k \in 1..(Len(ms) - 1) : ms[k].player # ms[k + 1].player
            /\ \A j \in 1..Len(ms) : \A k \in 1..Len(ms) :
                  (ms[j].x = ms[k].x /\ ms[j].y = ms[k].y) => j = k
            /\ (games[id].status = "ongoing" /\ Len(ms) > 0) =>
                  games[id].nextPlayer = Opp(ms[Len(ms)].player)

\* a move was placed on a game that had been undone, on a log of three or more
C35_Witness ==
    \E id \in DOMAIN games :
        /\ ghost[id].undone
        /\ last.op = "applyMove" /\ last.code = "OK" /\ last.id = id
        /\ Len(games[id].moves) >= 3
        /\ games[id].status = "ongoing"

\* the Empty cells <<x, y>> of a board
EmptyCells(board) ==
    {c \in (DOMAIN board) \X (DOMAIN board) : board[c[2]][c[1]] = Null}

\* C36: a game with status Ongoing has an Empty cell, and applyMove succeeds
\* on it; the log never holds more than size * size moves and holds fewer
\* while the game is Ongoing, so play without undo ends in Won or Draw after
\* at most size * size successful moves.
C36_PlayEnds ==
    \A id \in DOMAIN games :
        /\ Len(games[id].moves) <= games[id].size * games[id].size
        /\ Len(games[id].moves) = games[id].size * games[id].size =>
              games[id].status \in {"won", "draw"}
        /\ games[id].status = "ongoing" =>
              /\ EmptyCells(games[id].board) # {}
              /\ LET c == CHOOSE c \in EmptyCells(games[id].board) : TRUE
                 IN  applyMove(games, id, c[1], c[2]).code = "OK"

\* an Ongoing game one move short of a full board
C36_Witness ==
    \E id \in DOMAIN games :
        /\ games[id].status = "ongoing"
        /\ Len(games[id].moves) = games[id].size * games[id].size - 1
        /\ Cardinality(EmptyCells(games[id].board)) = 1

\* number of cells of the board that hold player
CountOf(board, player) ==
    Cardinality({c \in (DOMAIN board) \X (DOMAIN board) : board[c[1]][c[2]] = player})

\* as many B stones as W stones, or one more
Balanced(board) ==
    \/ CountOf(board, "B") = CountOf(board, "W")
    \/ CountOf(board, "B") = CountOf(board, "W") + 1

\* C37: every join, move or disconnect that creates or changes the board of
\* a room leaves it with as many B stones as W stones or one B stone more,
\* and with every cell that was set before holding what it held.
C37_RoomBalance ==
    [][\A roomId \in DOMAIN boards' :
          \/ roomId \in DOMAIN boards /\ boards'[roomId] = boards[roomId]
          \/ /\ Balanced(boards'[roomId])
             /\ roomId \in DOMAIN boards =>
                   \A row \in DOMAIN boards[roomId] : \A col \in DOMAIN boards[roomId] :
                       boards[roomId][row][col] # Null =>
                           boards'[roomId][row][col] = boards[roomId][row][col]]_vars

\* a move on a taken cell was turned down on a board of nine stones, five B
C37_Witness ==
    /\ rlast.op = "move" /\ ~rlast.valid /\ ~rlast.free
    /\ rlast.color = rlast.turn
    /\ CountOf(boards[rlast.room], "B") = 5
    /\ CountOf(boards[rlast.room], "W") = 4

\* C38: the member list of a room holds each connection id at most once,
\* also when a connection sends join for the same room more than once.
C38_MembersAreSet ==
    \A roomId \in DOMAIN rooms :
        \A j \in 1..Len(rooms[roomId]) : \A k \in 1..Len(rooms[roomId]) :
            rooms[roomId][j] = rooms[roomId][k] => j = k

\* C39: a DTO returned by createGame, applyMove or undo is not altered by
\* later operations on the game: its board and its moves list read as they
\* did when it was returned.
C39_SnapshotsAreValues ==
    snap.held =>
        /\ snap.board = snap.returned.board
        /\ snap.moves = snap.returned.moves

====
